---- MODULE Spec2Model ----
(***************************************************************************)
(* Model of analyzeCodebase (src/src/analyzer.js): the pipeline that       *)
(* validates its arguments, discovers the .js files of a folder, and for   *)
(* each file reads it, asks the AI client for documentation and hands the  *)
(* answer to the Markdown writer, counting successes and errors.           *)
(*                                                                         *)
(* An async function is a sequence of synchronous segments separated by    *)
(* its awaits; each action below is one such segment.  The collaborators   *)
(* (fs, glob, callGemini, writeMarkdown, setTimeout, console) are the      *)
(* environment: their outcomes are chosen nondeterministically and the     *)
(* calls made to them are recorded.                                        *)
(***************************************************************************)
EXTENDS Integers, Sequences, FiniteSets, TLC

\* Largest number of files the discovery returns in the model.
MaxFiles == 3

\* Largest number of discovered files of a run that is followed by a second.
MaxRerunFiles == 2

---------------------------------------------------------------------------
(* JavaScript values of the arguments: a type tag and a printed value.     *)

Undefined == [type |-> "undefined", val |-> ""]
Str(s) == [type |-> "string", val |-> s]
Num(s) == [type |-> "number", val |-> s]

\* Values a caller may pass as folderPath (line 16 tests truthiness and type).
FolderPathArgs == {Undefined, Str(""), Num("0"), Num("7"), Str("proj"), Str("gone")}

\* Values of options.output: documented as a string (line 11), optional.
OutputArgs == {Undefined, Str(""), Str("docs")}

\* Folders that exist on the filesystem of the model.
ExistingFolders == {"proj"}

\* Texts the AI client may answer with.
DocTexts == {"docA", "docB"}

\* Relative paths of the .js files that can exist below the folder.
FileNames == 1 .. MaxFiles

\* JavaScript truthiness: !v is true for undefined, "" and 0.
Falsy(v) ==
    \/ v.type = "undefined"
    \/ v.type = "string" /\ v.val = ""
    \/ v.type = "number" /\ v.val = "0"

TypeOf(v) == v.type

\* fs.existsSync(folderPath), for a string argument.
ExistsSync(fp) == fp.val \in ExistingFolders

\* A path returned by glob for the pattern `${folderPath}/**/*.js`.
FilePath(dir, name) == [dir |-> dir, rel |-> name]

\* path.relative(folderPath, file)
PathRelative(dir, file) == file.rel

\* path.resolve(p): the working directory followed by the relative path p.
Cwd == "/cwd"
PathResolve(p) == <<Cwd, p>>

\* The file lists glob can resolve with: distinct paths under the folder, in
\* traversal order (not sorted), possibly none.
FileLists(dir) ==
    { fl \in UNION { [1 .. n -> { FilePath(dir, f) : f \in FileNames }] : n \in 0 .. MaxFiles } :
        \A i, j \in DOMAIN fl : i # j => fl[i] # fl[j] }

\* Error objects: the message text and the value interpolated into it.
Err(text, arg) == [text |-> text, arg |-> arg]
NoError == Err("", "")
InvalidFolderError == Err("Invalid folder path", "")
MissingOutputError == Err("Output directory must be specified", "")
FolderMissingError(fp) == Err("Folder does not exist: ", fp.val)
GlobError == Err("glob traversal failed", "")
ReadError == Err("readFileSync failed", "")
AiError == Err("callGemini failed", "")
WriteError == Err("writeMarkdown failed", "")

\* A console line: the stream, the fixed text, and the interpolated values.
Line(stream, text, nums, strs) ==
    [stream |-> stream, text |-> text, nums |-> nums, strs |-> strs]


\* files.slice(0, 5) shows at most this many paths (line 53).
FirstFew == 5

\* The pause between two files, in milliseconds (line 113).
DelayMs == 500

Min(a, b) == IF a < b THEN a ELSE b

---------------------------------------------------------------------------
VARIABLES
    folderPath,     \* argument folderPath
    options,        \* argument options: [output, verbose]
    pc,             \* position of the run in analyzeCodebase
    result,         \* "pending", "returned" or "raised": what the caller sees
    thrown,         \* the error the caller receives when result = "raised"
    error,          \* the error caught by the outer catch (line 125)
    fileError,      \* the error caught by the per-file catch (line 100)
    files,          \* const files (line 36)
    index,          \* zero-based loop index (line 61)
    successCount,   \* line 58
    errorCount,     \* line 59
    fileContent,    \* line 73
    documentation,  \* line 92
    console,        \* lines written to the console, in order
    globCalls,      \* number of calls of glob
    globResult,     \* how the glob call settled: "pending", "resolved", "rejected"
    reads,          \* files passed to fs.readFileSync, in order
    aiCalls,        \* calls of callGemini, in order: [file, prompt]
    writes,         \* calls of writeMarkdown, in order: [file, doc, out]
    pauses,         \* delays started: [after: loop index, ms: duration]
    raises,         \* per-file steps that raised: [file, step]
    outstanding,    \* awaited operations that have not settled yet
    aiReturns,      \* results callGemini resolved with, in order: [file, doc]
    writeReturns,   \* results writeMarkdown resolved with, in order: [file, value]
    outDocs,        \* documents below the output directories: [path, doc]
    run,            \* "first" or "second" invocation on this filesystem
    prev            \* what the first invocation did, once it has ended

vars ==
    <<folderPath, options, pc, result, thrown, error, fileError, files, index,
      successCount, errorCount, fileContent, documentation, console, globCalls,
      globResult, reads, aiCalls, writes, pauses, raises, outstanding,
      aiReturns, writeReturns, outDocs, run, prev>>

\* Variables of the run's environment record that a segment leaves alone.
calls ==
    <<globCalls, globResult, reads, aiCalls, writes, pauses, raises, outstanding,
      aiReturns, writeReturns, outDocs>>
locals == <<files, index, successCount, errorCount, fileContent, documentation, fileError>>
args == <<folderPath, options, run, prev>>
settled == <<aiReturns, writeReturns, outDocs>>

NoContent == [contentOf |-> 0]
NoDoc == ""

\* The record of an invocation: its flag, its outcome and the calls it made.
RunRecord ==
    [verbose |-> options.verbose, result |-> result, thrown |-> thrown,
     successCount |-> successCount, errorCount |-> errorCount, files |-> files,
     globResult |-> globResult, reads |-> reads, aiCalls |-> aiCalls,
     aiReturns |-> aiReturns, writes |-> writes, writeReturns |-> writeReturns,
     pauses |-> pauses, raises |-> raises, outDocs |-> outDocs, console |-> console]

NoRun ==
    [verbose |-> FALSE, result |-> "pending", thrown |-> NoError,
     successCount |-> 0, errorCount |-> 0, files |-> <<>>,
     globResult |-> "pending", reads |-> <<>>, aiCalls |-> <<>>,
     aiReturns |-> <<>>, writes |-> <<>>, writeReturns |-> <<>>,
     pauses |-> <<>>, raises |-> <<>>, outDocs |-> {}, console |-> <<>>]

Init ==
    /\ folderPath \in FolderPathArgs
    /\ options \in [output : OutputArgs, verbose : BOOLEAN]
    /\ pc = "validate_folder"
    /\ result = "pending"
    /\ thrown = NoError
    /\ error = NoError
    /\ fileError = NoError
    /\ files = <<>>
    /\ index = 0
    /\ successCount = 0
    /\ errorCount = 0
    /\ fileContent = NoContent
    /\ documentation = NoDoc
    /\ console = <<>>
    /\ globCalls = 0
    /\ globResult = "pending"
    /\ reads = <<>>
    /\ aiCalls = <<>>
    /\ writes = <<>>
    /\ pauses = <<>>
    /\ raises = <<>>
    /\ outstanding = {}
    /\ aiReturns = <<>>
    /\ writeReturns = <<>>
    /\ outDocs = {}
    /\ run = "first"
    /\ prev = NoRun

---------------------------------------------------------------------------
(* Expressions of the code that decide the control flow.                   *)

\* Line 16: !folderPath || typeof folderPath !== 'string'
InvalidFolderPath(fp) == Falsy(fp) \/ TypeOf(fp) # "string"

\* The check written as `options.output === null`: undefined and "" pass.
MissingOutputNullOnly(opts) == opts.output.type = "null"

\* Line 20: !options.output
MissingOutput(opts) == Falsy(opts.output)

\* The check written as `!files`: an empty array is truthy.
NoFilesFoundNever(fl) == FALSE

\* Line 38: files.length === 0
NoFilesFound(fl) == Len(fl) = 0

\* The test written as `index < files.length`: true after the last file too.
DelayNeededAlways(idx, fl) == idx < Len(fl)

\* Line 112: index < files.length - 1
DelayNeeded(idx, fl) == idx < Len(fl) - 1

\* The loop ending one entry early (`idx < files.length - 1`).
LoopTargetSkipsLast(idx, fl) == IF idx < Len(fl) - 1 THEN "process_file" ELSE "summary"

\* Line 61: the for-of loop takes the entry at idx, or ends after the last.
LoopTarget(idx, fl) == IF idx < Len(fl) THEN "process_file" ELSE "summary"

\* Line 63: `[${index + 1}/${files.length}]`
Progress(idx, fl) == <<idx + 1, Len(fl)>>

\* Lines 80-90: the prompt carries the relative path and the content.
Prompt(relativePath, content) == [rel |-> relativePath, content |-> content]

\* Line 73: the content of a file that can be read.
ContentOf(file) == [contentOf |-> file.rel]

\* The writer called with the working directory instead of options.output.
WriterArgsIgnoringOutput(file, doc, opts) == [file |-> file, doc |-> doc, out |-> Cwd]

\* Line 93: the arguments writeMarkdown is called with.
WriterArgs(file, doc, opts) == [file |-> file, doc |-> doc, out |-> opts.output.val]

\* The catch throwing a new error that wraps the message of the caught one.
RethrownWrapped(e) == Err("Analysis failed: ", e.text)

\* Line 130: the error that is thrown again.
Rethrown(e) == e

\* The destination of a file's document: the file's relative path below the
\* output root, with the extension of a Markdown document.
MirroredPath(file, out) == [root |-> out, rel |-> file.rel, ext |-> "md"]

\* The value writeMarkdown resolves with: the destination path, a string.
WriterReturn(file, out) == [type |-> "string", path |-> MirroredPath(file, out)]

\* The documents after writeMarkdown has written doc at path, replacing any
\* document that was there.
WriteFile(docs, path, doc) ==
    { d \in docs : d.path # path } \cup {[path |-> path, doc |-> doc]}

\* Line 96: path.relative(process.cwd(), outputPath) throws a TypeError when
\* outputPath is not a string.
PathRelativeThrows(value) == value.type # "string"
PathTypeError == Err("The \"to\" argument must be of type string", "")

CurrentFile == files[index + 1]

---------------------------------------------------------------------------
(* The environment of a second invocation answers as it answered the first *)
(* one: a call the first invocation made settles the same way again; a     *)
(* call the first invocation did not make settles either way.              *)

Called(seq, file) == \E i \in DOMAIN seq : seq[i].file = file

Replayed(seq, file) == run = "second" /\ Called(seq, file)

Raised(file, step) ==
    \E i \in DOMAIN prev.raises : prev.raises[i] = [file |-> file, step |-> step]

\* Line 36: the ways the glob call can settle.
GlobMayResolve == run = "second" /\ prev.globResult # "pending" => prev.globResult = "resolved"
GlobMayReject == run = "second" /\ prev.globResult # "pending" => prev.globResult = "rejected"
GlobLists(dir) ==
    IF run = "second" /\ prev.globResult = "resolved" THEN {prev.files} ELSE FileLists(dir)

\* Line 73: whether readFileSync returns (TRUE) or throws (FALSE).
ReadOutcomes(file) ==
    IF run = "second" /\ file \in { prev.reads[i] : i \in DOMAIN prev.reads }
      THEN {~Raised(file, "read")}
      ELSE BOOLEAN

\* Line 92: the texts callGemini can resolve with, and whether it can reject.
AiDocs(file) ==
    IF Replayed(prev.aiCalls, file)
      THEN { prev.aiReturns[i].doc :
               i \in { j \in DOMAIN prev.aiReturns : prev.aiReturns[j].file = file } }
      ELSE DocTexts
AiMayReject(file) == Replayed(prev.aiCalls, file) => Raised(file, "ai")

\* Line 93: whether writeMarkdown can resolve, and whether it can reject.
WriteMayResolve(file) == Replayed(prev.writes, file) => ~Raised(file, "write")
WriteMayReject(file) == Replayed(prev.writes, file) => Raised(file, "write")

RelativePath == PathRelative(folderPath.val, CurrentFile)

Say(lines) == console' = console \o lines

WhenVerbose(lines) == IF options.verbose THEN lines ELSE <<>>

Settled(op) == outstanding' = outstanding \ {[op |-> op, idx |-> index]}

Started(op) == outstanding' = outstanding \cup {[op |-> op, idx |-> index]}

---------------------------------------------------------------------------
(* Lines 16-18: the folder path argument is checked outside the try.       *)
ValidateFolder ==
    /\ pc = "validate_folder"
    /\ IF InvalidFolderPath(folderPath)
         THEN /\ thrown' = InvalidFolderError
              /\ result' = "raised"
              /\ pc' = "done"
         ELSE /\ pc' = "validate_output"
              /\ UNCHANGED <<thrown, result>>
    /\ UNCHANGED <<args, error, locals, console, calls>>

(* Lines 20-22: the output option is checked outside the try.              *)
ValidateOutput ==
    /\ pc = "validate_output"
    /\ IF MissingOutput(options)
         THEN /\ thrown' = MissingOutputError
              /\ result' = "raised"
              /\ pc' = "done"
         ELSE /\ pc' = "check_folder"
              /\ UNCHANGED <<thrown, result>>
    /\ UNCHANGED <<args, error, locals, console, calls>>

(* Lines 24-36: inside the try, the folder must exist; then glob is called *)
(* and awaited.                                                            *)
CheckFolder ==
    /\ pc = "check_folder"
    /\ IF ~ExistsSync(folderPath)
         THEN /\ error' = FolderMissingError(folderPath)
              /\ pc' = "catch_outer"
              /\ UNCHANGED <<console, globCalls, outstanding>>
         ELSE /\ Say(WhenVerbose(<<Line("log", "Searching for JavaScript files matching",
                                        <<>>, <<folderPath.val, "/**/*.js">>)>>))
              /\ globCalls' = globCalls + 1
              /\ Started("glob")
              /\ pc' = "await_glob"
              /\ UNCHANGED error
    /\ UNCHANGED <<args, settled, result, thrown, locals, globResult, reads, aiCalls,
                   writes, pauses, raises>>

\* Lines 50-55: the announcement of the files found.
FoundLines(fl) ==
    <<Line("log", "Found JavaScript files to process", <<Len(fl)>>, <<>>)>>
    \o WhenVerbose(
        <<Line("log", "First few files:", <<>>, <<>>)>>
        \o [i \in 1 .. Min(FirstFew, Len(fl)) |-> Line("log", "file", <<i, fl[i].rel>>, <<>>)]
        \o <<Line("log", "...and more", <<Len(fl) - FirstFew>>, <<>>)>>)

\* Lines 39-46: the warning when nothing was found.
NoFilesLines ==
    <<Line("warn", "No JavaScript files found in the specified directory", <<>>, <<>>)>>
    \o WhenVerbose(
        <<Line("log", "Make sure the path is correct and contains .js files", <<>>, <<>>),
          Line("log", "Current working directory:", <<>>, <<Cwd>>)>>)

\* successCount and errorCount kept outside the function and not set to 0.
GlobResolveKeepsCounters ==
    /\ pc = "await_glob"
    /\ GlobMayResolve
    /\ \E fl \in GlobLists(folderPath.val) :
        /\ files' = fl
        /\ globResult' = "resolved"
        /\ Settled("glob")
        /\ IF NoFilesFound(fl)
             THEN /\ Say(NoFilesLines)
                  /\ result' = "returned"
                  /\ pc' = "done"
                  /\ UNCHANGED index
             ELSE /\ Say(FoundLines(fl))
                  /\ index' = 0
                  /\ pc' = LoopTarget(0, fl)
                  /\ UNCHANGED result
    /\ UNCHANGED <<args, settled, thrown, error, fileError, fileContent, documentation,
                   successCount, errorCount, globCalls, reads, aiCalls, writes, pauses,
                   raises>>

(* Lines 36-59: glob resolves with the list of files; an empty list ends   *)
(* the run with a warning, otherwise the counters are set up and the loop  *)
(* is entered.                                                             *)
GlobResolve ==
    /\ pc = "await_glob"
    /\ GlobMayResolve
    /\ \E fl \in GlobLists(folderPath.val) :
        /\ files' = fl
        /\ globResult' = "resolved"
        /\ Settled("glob")
        /\ IF NoFilesFound(fl)
             THEN /\ Say(NoFilesLines)
                  /\ result' = "returned"
                  /\ pc' = "done"
                  /\ UNCHANGED <<index, successCount, errorCount>>
             ELSE /\ Say(FoundLines(fl))
                  /\ successCount' = 0
                  /\ errorCount' = 0
                  /\ index' = 0
                  /\ pc' = LoopTarget(0, fl)
                  /\ UNCHANGED result
    /\ UNCHANGED <<args, settled, thrown, error, fileError, fileContent, documentation,
                   globCalls, reads, aiCalls, writes, pauses, raises>>

\* A rejected glob handled like an empty result: warning and normal return.
GlobRejectSwallowed ==
    /\ pc = "await_glob"
    /\ GlobMayReject
    /\ Settled("glob")
    /\ globResult' = "rejected"
    /\ Say(NoFilesLines)
    /\ result' = "returned"
    /\ pc' = "done"
    /\ UNCHANGED <<args, settled, thrown, error, locals, globCalls, reads, aiCalls,
                   writes, pauses, raises>>

(* Line 36: glob rejects; the await throws inside the try.                 *)
GlobReject ==
    /\ pc = "await_glob"
    /\ GlobMayReject
    /\ Settled("glob")
    /\ globResult' = "rejected"
    /\ error' = GlobError
    /\ pc' = "catch_outer"
    /\ UNCHANGED <<args, settled, result, thrown, locals, console,
                   globCalls, reads, aiCalls, writes, pauses, raises>>

\* Lines 66-71: the progress line(s) of a file.
ProgressLines ==
    IF options.verbose
      THEN <<Line("log", "Processing:", Progress(index, files) \o <<RelativePath>>, <<>>),
             Line("log", "Full path:", <<CurrentFile.rel>>, <<Cwd, CurrentFile.dir>>)>>
      ELSE <<Line("stdout", "Processing:", Progress(index, files) \o <<RelativePath>>, <<>>)>>

(* Lines 62-92: the file is read synchronously; when the read throws the   *)
(* per-file catch takes over, otherwise the prompt is built and callGemini *)
(* is called and awaited.                                                  *)
ProcessFile ==
    /\ pc = "process_file"
    /\ reads' = Append(reads, CurrentFile)
    /\ \E readOk \in ReadOutcomes(CurrentFile) :
        IF readOk
          THEN /\ fileContent' = ContentOf(CurrentFile)
               /\ Say(ProgressLines \o WhenVerbose(
                        <<Line("log", "File size:", <<>>, <<>>),
                          Line("log", "Sending to AI for documentation...", <<>>, <<>>)>>))
               /\ aiCalls' = Append(aiCalls,
                      [file |-> CurrentFile,
                       prompt |-> Prompt(RelativePath, ContentOf(CurrentFile))])
               /\ Started("ai")
               /\ pc' = "await_ai"
               /\ UNCHANGED <<fileError, raises>>
          ELSE /\ Say(ProgressLines)
               /\ fileError' = ReadError
               /\ raises' = Append(raises, [file |-> CurrentFile, step |-> "read"])
               /\ pc' = "catch_file"
               /\ UNCHANGED <<fileContent, aiCalls, outstanding>>
    /\ UNCHANGED <<args, settled, result, thrown, error, files, index, successCount,
                   errorCount,
                   documentation, globCalls, globResult, writes, pauses>>

\* writeMarkdown called without await: the file is counted at once and the
\* loop goes on while the write is still in flight.
AiResolveNoAwait ==
    /\ pc = "await_ai"
    /\ \E doc \in AiDocs(CurrentFile) :
        /\ documentation' = doc
        /\ aiReturns' = Append(aiReturns, [file |-> CurrentFile, doc |-> doc])
        /\ writes' = Append(writes, WriterArgs(CurrentFile, doc, options))
    /\ outstanding' = (outstanding \ {[op |-> "ai", idx |-> index]})
                        \cup {[op |-> "write", idx |-> index]}
    /\ successCount' = successCount + 1
    /\ pc' = "delay"
    /\ UNCHANGED <<args, writeReturns, outDocs, result, thrown, error, fileError,
                   files, index, errorCount, fileContent, console, globCalls,
                   globResult, reads, aiCalls, pauses, raises>>

\* successCount++ placed before the call of writeMarkdown.
AiResolveCountsEarly ==
    /\ pc = "await_ai"
    /\ \E doc \in AiDocs(CurrentFile) :
        /\ documentation' = doc
        /\ aiReturns' = Append(aiReturns, [file |-> CurrentFile, doc |-> doc])
        /\ writes' = Append(writes, WriterArgs(CurrentFile, doc, options))
    /\ successCount' = successCount + 1
    /\ outstanding' = (outstanding \ {[op |-> "ai", idx |-> index]})
                        \cup {[op |-> "write", idx |-> index]}
    /\ pc' = "await_write"
    /\ UNCHANGED <<args, writeReturns, outDocs, result, thrown, error, fileError,
                   files, index, errorCount, fileContent, console, globCalls,
                   globResult, reads, aiCalls, pauses, raises>>

\* The writer called with the documentation variable as it was before the
\* call of callGemini (the result of the await is dropped).
AiResolveWritesStaleDoc ==
    /\ pc = "await_ai"
    /\ \E doc \in AiDocs(CurrentFile) :
        /\ aiReturns' = Append(aiReturns, [file |-> CurrentFile, doc |-> doc])
        /\ writes' = Append(writes, WriterArgs(CurrentFile, documentation, options))
    /\ outstanding' = (outstanding \ {[op |-> "ai", idx |-> index]})
                        \cup {[op |-> "write", idx |-> index]}
    /\ pc' = "await_write"
    /\ UNCHANGED <<args, writeReturns, outDocs, result, thrown, error, fileError,
                   files, index, successCount, errorCount, fileContent, documentation,
                   console, globCalls, globResult, reads, aiCalls, pauses, raises>>

(* Lines 92-93: callGemini resolves with the documentation; writeMarkdown  *)
(* is called with it and awaited.                                          *)
AiResolve ==
    /\ pc = "await_ai"
    /\ \E doc \in AiDocs(CurrentFile) :
        /\ documentation' = doc
        /\ aiReturns' = Append(aiReturns, [file |-> CurrentFile, doc |-> doc])
        /\ writes' = Append(writes, WriterArgs(CurrentFile, doc, options))
    /\ outstanding' = (outstanding \ {[op |-> "ai", idx |-> index]})
                        \cup {[op |-> "write", idx |-> index]}
    /\ pc' = "await_write"
    /\ UNCHANGED <<args, writeReturns, outDocs, result, thrown, error, fileError,
                   files, index, successCount, errorCount, fileContent, console,
                   globCalls, globResult, reads, aiCalls, pauses, raises>>

\* A timeout around callGemini: the file fails while the call is in flight.
AiRejectOnTimeout ==
    /\ pc = "await_ai"
    /\ AiMayReject(CurrentFile)
    /\ fileError' = Err("callGemini timed out", "")
    /\ raises' = Append(raises, [file |-> CurrentFile, step |-> "ai"])
    /\ pc' = "catch_file"
    /\ UNCHANGED <<args, settled, result, thrown, error, files, index, successCount,
                   errorCount, fileContent, documentation, console, globCalls,
                   globResult, reads, aiCalls, writes, pauses, outstanding>>

(* Line 92: callGemini rejects.                                            *)
AiReject ==
    /\ pc = "await_ai"
    /\ AiMayReject(CurrentFile)
    /\ Settled("ai")
    /\ fileError' = AiError
    /\ raises' = Append(raises, [file |-> CurrentFile, step |-> "ai"])
    /\ pc' = "catch_file"
    /\ UNCHANGED <<args, settled, result, thrown, error, files, index, successCount,
                   errorCount,
                   fileContent, documentation, console, globCalls, globResult, reads, aiCalls,
                   writes, pauses>>

\* successCount++ placed in the else branch of the verbose test of line 95.
WriteResolveCountsOnlyQuiet ==
    /\ pc = "await_write"
    /\ WriteMayResolve(CurrentFile)
    /\ Settled("write")
    /\ LET outputPath == WriterReturn(CurrentFile, options.output.val) IN
        /\ writeReturns' = Append(writeReturns, [file |-> CurrentFile, value |-> outputPath])
        /\ outDocs' = WriteFile(outDocs, MirroredPath(CurrentFile, options.output.val),
                                documentation)
        /\ IF options.verbose
             THEN /\ Say(<<Line("log", "Successfully documented:",
                                <<CurrentFile.rel>>, <<options.output.val>>)>>)
                  /\ UNCHANGED successCount
             ELSE /\ successCount' = successCount + 1
                  /\ UNCHANGED console
        /\ pc' = "delay"
    /\ UNCHANGED <<args, aiReturns, result, thrown, error, fileError, files, index,
                   errorCount, fileContent, documentation, globCalls, globResult, reads,
                   aiCalls, writes, pauses, raises>>

(* Lines 93-98: writeMarkdown has written the document and resolves with   *)
(* the output path; in verbose mode the path is shown relative to the      *)
(* working directory, which throws into the per-file catch when it is not  *)
(* a string; otherwise the file is counted as a success.                   *)
WriteResolve ==
    /\ pc = "await_write"
    /\ WriteMayResolve(CurrentFile)
    /\ Settled("write")
    /\ LET outputPath == WriterReturn(CurrentFile, options.output.val) IN
        /\ writeReturns' = Append(writeReturns, [file |-> CurrentFile, value |-> outputPath])
        /\ outDocs' = WriteFile(outDocs, MirroredPath(CurrentFile, options.output.val),
                                documentation)
        /\ IF options.verbose /\ PathRelativeThrows(outputPath)
             THEN /\ fileError' = PathTypeError
                  /\ pc' = "catch_file"
                  /\ UNCHANGED <<console, successCount>>
             ELSE /\ Say(WhenVerbose(<<Line("log", "Successfully documented:",
                                            <<CurrentFile.rel>>, <<options.output.val>>)>>))
                  /\ successCount' = successCount + 1
                  /\ pc' = "delay"
                  /\ UNCHANGED fileError
    /\ UNCHANGED <<args, aiReturns, result, thrown, error, files, index, errorCount,
                   fileContent, documentation, globCalls, globResult, reads, aiCalls, writes,
                   pauses, raises>>

(* Line 93: writeMarkdown rejects.                                         *)
WriteReject ==
    /\ pc = "await_write"
    /\ WriteMayReject(CurrentFile)
    /\ Settled("write")
    /\ fileError' = WriteError
    /\ raises' = Append(raises, [file |-> CurrentFile, step |-> "write"])
    /\ pc' = "catch_file"
    /\ UNCHANGED <<args, settled, result, thrown, error, files, index, successCount,
                   errorCount,
                   fileContent, documentation, console, globCalls, globResult, reads, aiCalls,
                   writes, pauses>>

\* Lines 102-108: the report of a file's error.
FileErrorLines ==
    IF options.verbose
      THEN <<Line("error", "Error processing", <<RelativePath>>, <<fileError.text>>),
             Line("error", "Stack:", <<>>, <<fileError.text>>)>>
      ELSE <<Line("error", "Error processing",
                  Progress(index, files) \o <<RelativePath>>, <<fileError.text>>)>>

\* The per-file catch ending the loop (a `break` after the report).
CatchFileBreaks ==
    /\ pc = "catch_file"
    /\ errorCount' = errorCount + 1
    /\ Say(FileErrorLines)
    /\ pc' = "summary"
    /\ UNCHANGED <<args, result, thrown, error, fileError, files, index, successCount,
                   fileContent, documentation, calls>>

\* The per-file catch throwing the error again after counting it.
CatchFileRethrows ==
    /\ pc = "catch_file"
    /\ errorCount' = errorCount + 1
    /\ Say(FileErrorLines)
    /\ error' = fileError
    /\ pc' = "catch_outer"
    /\ UNCHANGED <<args, result, thrown, fileError, files, index, successCount,
                   fileContent, documentation, calls>>

\* The per-file catch trying the same file again after the report.
CatchFileRetries ==
    /\ pc = "catch_file"
    /\ errorCount' = errorCount + 1
    /\ Say(FileErrorLines)
    /\ pc' = "process_file"
    /\ UNCHANGED <<args, result, thrown, error, fileError, files, index, successCount,
                   fileContent, documentation, calls>>

\* The per-file catch reporting the error without counting it.
CatchFileUncounted ==
    /\ pc = "catch_file"
    /\ Say(FileErrorLines)
    /\ pc' = "delay"
    /\ UNCHANGED <<args, result, thrown, error, fileError, files, index, successCount,
                   errorCount, fileContent, documentation, calls>>

(* Lines 100-109: the per-file catch counts the error and reports it; the  *)
(* loop body goes on after the catch.                                      *)
CatchFile ==
    /\ pc = "catch_file"
    /\ errorCount' = errorCount + 1
    /\ Say(FileErrorLines)
    /\ pc' = "delay"
    /\ UNCHANGED <<args, result, thrown, error, fileError, files, index, successCount,
                   fileContent, documentation, calls>>

(* Lines 112-114: after a file but the last, the delay is started and      *)
(* awaited; after the last file the loop ends.                             *)
Delay ==
    /\ pc = "delay"
    /\ IF DelayNeeded(index, files)
         THEN /\ pauses' = Append(pauses, [after |-> index, ms |-> DelayMs])
              /\ Started("delay")
              /\ pc' = "await_delay"
              /\ UNCHANGED index
         ELSE /\ index' = index + 1
              /\ pc' = LoopTarget(index + 1, files)
              /\ UNCHANGED <<pauses, outstanding>>
    /\ UNCHANGED <<args, settled, result, thrown, error, fileError, files, successCount,
                   errorCount, fileContent, documentation, console, globCalls, globResult, reads,
                   aiCalls, writes, raises>>

\* The promise of the delay never resolved (resolve is not passed on to
\* setTimeout): the await of line 113 has no continuation.
DelayResolveNever ==
    /\ pc = "await_delay"
    /\ FALSE
    /\ UNCHANGED vars

(* Line 113: the timer fires; the loop goes to the next file.              *)
DelayResolve ==
    /\ pc = "await_delay"
    /\ Settled("delay")
    /\ index' = index + 1
    /\ pc' = LoopTarget(index + 1, files)
    /\ UNCHANGED <<args, settled, result, thrown, error, fileError, files, successCount,
                   errorCount, fileContent, documentation, console, globCalls, globResult, reads,
                   aiCalls, writes, pauses, raises>>

\* The summary with the test of line 120 written `errorCount >= 0`.
SummaryLinesAlwaysWarns ==
    <<Line("log", "Documentation generation complete!", <<>>, <<>>),
      Line("log", "files successfully documented", <<successCount>>, <<>>),
      Line("warn", "files had errors (see above for details)", <<errorCount>>, <<>>),
      Line("log", "Output directory:", <<>>, PathResolve(options.output.val))>>

\* Lines 118-123: the final summary.
SummaryLines ==
    <<Line("log", "Documentation generation complete!", <<>>, <<>>),
      Line("log", "files successfully documented", <<successCount>>, <<>>)>>
    \o (IF errorCount > 0
          THEN <<Line("warn", "files had errors (see above for details)",
                      <<errorCount>>, <<>>)>>
          ELSE <<>>)
    \o <<Line("log", "Output directory:", <<>>, PathResolve(options.output.val))>>

(* Lines 118-124: the summary is printed and the function returns.         *)
Summary ==
    /\ pc = "summary"
    /\ Say(SummaryLines)
    /\ result' = "returned"
    /\ pc' = "done"
    /\ UNCHANGED <<args, thrown, error, locals, calls>>

\* Lines 126-129: the report of a fatal error.
FatalLines ==
    <<Line("error", "Analysis failed:", <<>>, <<error.text, error.arg>>)>>
    \o WhenVerbose(<<Line("error", "Stack:", <<>>, <<error.text, error.arg>>)>>)

(* Lines 125-131: the outer catch reports the error and throws it again.   *)
CatchOuter ==
    /\ pc = "catch_outer"
    /\ Say(FatalLines)
    /\ thrown' = Rethrown(error)
    /\ result' = "raised"
    /\ pc' = "done"
    /\ UNCHANGED <<args, error, locals, calls>>

Next ==
    \/ ValidateFolder
    \/ ValidateOutput
    \/ CheckFolder
    \/ GlobResolve
    \/ GlobReject
    \/ ProcessFile
    \/ AiResolve
    \/ AiReject
    \/ WriteResolve
    \/ WriteReject
    \/ CatchFile
    \/ Delay
    \/ DelayResolve
    \/ Summary
    \/ CatchOuter

Spec == Init /\ [][Next]_vars

(* Line 15: the caller invokes analyzeCodebase again, with the same folder *)
(* and output option and any verbose flag, after the first invocation has  *)
(* ended.  The filesystem keeps the documents written; everything of the   *)
(* function is new.  successCount and errorCount do not exist before line  *)
(* 58, so what they hold until then is of no consequence.  Runs over more  *)
(* than MaxRerunFiles files are not followed by a second one.              *)
Restart ==
    /\ pc = "done"
    /\ run = "first"
    /\ Len(files) <= MaxRerunFiles
    /\ prev' = RunRecord
    /\ run' = "second"
    /\ \E verbose \in BOOLEAN : options' = [options EXCEPT !.verbose = verbose]
    /\ pc' = "validate_folder"
    /\ result' = "pending"
    /\ thrown' = NoError
    /\ error' = NoError
    /\ fileError' = NoError
    /\ files' = <<>>
    /\ index' = 0
    /\ fileContent' = NoContent
    /\ documentation' = NoDoc
    /\ console' = <<>>
    /\ globCalls' = 0
    /\ globResult' = "pending"
    /\ reads' = <<>>
    /\ aiCalls' = <<>>
    /\ writes' = <<>>
    /\ pauses' = <<>>
    /\ raises' = <<>>
    /\ outstanding' = {}
    /\ aiReturns' = <<>>
    /\ writeReturns' = <<>>
    /\ UNCHANGED <<folderPath, successCount, errorCount, outDocs>>

\* Two invocations in succession.
NextRerun == Next \/ Restart

SpecRerun == Init /\ [][NextRerun]_vars

\* Every invocation runs on: the event loop resumes the function whenever
\* the operation it awaits has settled, and every operation settles.
SpecFair == Spec /\ WF_vars(Next)

TypeOK ==
    /\ pc \in {"validate_folder", "validate_output", "check_folder", "await_glob",
               "process_file", "await_ai", "await_write", "catch_file", "delay",
               "await_delay", "summary", "catch_outer", "done"}
    /\ result \in {"pending", "returned", "raised"}
    /\ index \in 0 .. MaxFiles
    /\ successCount \in 0 .. MaxFiles
    /\ errorCount \in 0 .. MaxFiles
    /\ Len(files) <= MaxFiles

---------------------------------------------------------------------------
(* Observations used by the properties.                                    *)

Range(seq) == { seq[i] : i \in DOMAIN seq }

Said(stream, text) == \E i \in DOMAIN console :
    console[i].stream = stream /\ console[i].text = text

HowOften(text) == Cardinality({ i \in DOMAIN console : console[i].text = text })

SummaryEmitted == Said("log", "Documentation generation complete!")

WarningEmitted == Said("warn", "No JavaScript files found in the specified directory")

\* Files whose read, AI call or write raised, and files whose write succeeded.
RaisedFiles == { raises[i].file : i \in DOMAIN raises }
WrittenFiles ==
    { writes[i].file : i \in DOMAIN writes }
      \ ({ raises[i].file : i \in { j \in DOMAIN raises : raises[j].step = "write" } }
           \cup (IF pc = "await_write" THEN {CurrentFile} ELSE {}))

\* Positions of the run between two iterations of the loop, and after it.
AtLoopBoundary == pc \in {"process_file", "delay", "await_delay", "summary"}
AfterSummary == pc = "done" /\ SummaryEmitted

---------------------------------------------------------------------------
(* C1: a file whose read, AI call or write raises is absorbed: once the    *)
(* per-file catch has run it is counted in errorCount, the run never goes  *)
(* to the outer catch nor raises, and a run that has ended with such a     *)
(* file has attempted every discovered file in discovery order, has        *)
(* emitted the summary and has returned normally.                          *)
C1_PerFileFailureAbsorbed ==
    raises # <<>> =>
        /\ pc # "catch_outer" /\ result # "raised" /\ error = NoError
        /\ errorCount = Len(raises) - (IF pc = "catch_file" THEN 1 ELSE 0)
        /\ \A i \in DOMAIN reads : reads[i] = files[i]
        /\ RaisedFiles \subseteq Range(reads)
        /\ pc \in {"summary", "done"} => reads = files
        /\ pc = "done" => result = "returned" /\ SummaryEmitted

\* A run over several files whose first file failed has ended.
C1_Witness ==
    /\ pc = "done" /\ result = "returned"
    /\ Len(files) >= 2
    /\ raises # <<>> /\ raises[1].file = files[1]
    /\ reads = files

(* C2: at every loop boundary successCount + errorCount is the number of   *)
(* files attempted so far; every attempted file has raised or has been     *)
(* written, never both, and the counters count these two sets; when the    *)
(* summary is produced the sum is the number of discovered files.          *)
C2_CountersPartitionAttempts ==
    (AtLoopBoundary \/ AfterSummary) =>
        /\ successCount + errorCount = Len(reads)
        /\ Len(reads) = (IF pc = "process_file" THEN index
                         ELSE IF pc \in {"delay", "await_delay"} THEN index + 1
                         ELSE Len(files))
        /\ Cardinality(Range(reads)) = Len(reads)
        /\ RaisedFiles \cup WrittenFiles = Range(reads)
        /\ RaisedFiles \cap WrittenFiles = {}
        /\ errorCount = Cardinality(RaisedFiles)
        /\ successCount = Cardinality(WrittenFiles)
        /\ Len(raises) = Cardinality(RaisedFiles)
        /\ (pc \in {"summary", "done"} => successCount + errorCount = Len(files))

\* The summary is reached after a mix of failed and documented files.
C2_Witness ==
    /\ pc = "summary"
    /\ successCount >= 1 /\ errorCount >= 1
    /\ successCount + errorCount = Len(files)

(* C3: when N >= 1 files were discovered and no read, AI call or write     *)
(* raised, the run ends with successCount = N and errorCount = 0 and the   *)
(* writer was called exactly N times, the i-th call with the i-th file's   *)
(* path and options.output.                                                *)
C3_AllSucceed ==
    (pc = "done" /\ Len(files) >= 1 /\ raises = <<>>) =>
        /\ result = "returned"
        /\ successCount = Len(files)
        /\ errorCount = 0
        /\ Len(writes) = Len(files)
        /\ \A i \in DOMAIN writes :
            /\ writes[i].file = files[i]
            /\ writes[i].out = options.output.val

\* A run over the largest number of files has ended without a failure.
C3_Witness ==
    /\ pc = "done" /\ raises = <<>>
    /\ Len(files) >= 2
    /\ successCount = Len(files)
    /\ Len(writes) = Len(files)

\* The run's arguments fail the validation of lines 16-28.
FolderPathRejected == folderPath.type # "string" \/ folderPath.val = ""
OutputNotSet == options.output.type = "undefined" \/ options.output.val = ""
FolderAbsent == ~FolderPathRejected /\ folderPath.val \notin ExistingFolders
ValidationFails == FolderPathRejected \/ OutputNotSet \/ FolderAbsent

(* C4: a run whose arguments fail validation never calls glob, reads no    *)
(* file, makes no AI call and no write, emits no summary, never returns    *)
(* normally, and ends raising an error.                                    *)
C4_ValidationFailsFast ==
    ValidationFails =>
        /\ globCalls = 0 /\ globResult = "pending" /\ files = <<>>
        /\ reads = <<>> /\ aiCalls = <<>> /\ writes = <<>> /\ pauses = <<>>
        /\ ~SummaryEmitted /\ ~WarningEmitted
        /\ result # "returned"
        /\ pc \notin {"await_glob", "process_file", "await_ai", "await_write",
                      "catch_file", "delay", "await_delay", "summary"}
        /\ pc = "done" => result = "raised" /\ thrown # NoError

\* A run with a missing output option has raised.
C4_Witness ==
    /\ ~FolderPathRejected /\ OutputNotSet
    /\ pc = "done" /\ result = "raised"
    /\ thrown = MissingOutputError

\* Discovery has resolved with no file.
ZeroFilesFound == globResult = "resolved" /\ files = <<>>

(* C5: when discovery resolves with zero files the run has emitted the     *)
(* warning and returned normally, with no read, AI call or write and       *)
(* without the summary.                                                    *)
C5_ZeroFilesReturns ==
    ZeroFilesFound =>
        /\ pc = "done" /\ result = "returned" /\ thrown = NoError
        /\ WarningEmitted
        /\ ~SummaryEmitted
        /\ reads = <<>> /\ aiCalls = <<>> /\ writes = <<>>

\* Discovery found nothing and the run is over.
C5_Witness ==
    /\ ZeroFilesFound
    /\ pc = "done" /\ result = "returned"
    /\ WarningEmitted

\* The error constructed where the run fails fatally.
FatalCause ==
    IF FolderPathRejected THEN InvalidFolderError
    ELSE IF OutputNotSet THEN MissingOutputError
    ELSE IF FolderAbsent THEN FolderMissingError(folderPath)
    ELSE GlobError

\* analyzeCodebase has reported e as the failure of the analysis.
Logged(e) == \E i \in DOMAIN console :
    /\ console[i].stream = "error"
    /\ console[i].text = "Analysis failed:"
    /\ console[i].strs = <<e.text, e.arg>>

(* C6 as stated: every fatal error (invalid folder path, missing output    *)
(* option, absent folder, discovery error) has been logged by              *)
(* analyzeCodebase when it reaches the caller, and reaches it unaltered.   *)
C6_EveryFatalErrorLogged ==
    result = "raised" => thrown = FatalCause /\ Logged(thrown)

(* C6 amended: every fatal error reaches the caller unaltered; it has been *)
(* logged by analyzeCodebase exactly when it was raised inside the try     *)
(* (absent folder, discovery error); the errors of the two argument checks *)
(* (invalid folder path, missing output option) reach the caller unlogged. *)
C6_FatalErrorsUnalteredLoggedInsideTry ==
    result = "raised" =>
        /\ thrown = FatalCause
        /\ thrown = GlobError => globResult = "rejected"
        /\ Logged(thrown) <=> thrown \notin {InvalidFolderError, MissingOutputError}
        /\ HowOften("Analysis failed:") <= 1

\* The error of an absent folder has been logged and has reached the caller.
C6_Witness ==
    /\ result = "raised"
    /\ FolderAbsent
    /\ thrown = FolderMissingError(folderPath)
    /\ Logged(thrown)

(* C7: when the glob call rejects no file is read, no AI call and no write *)
(* is made, neither warning nor summary is emitted, and the run ends       *)
(* raising the glob error; when glob resolves with zero files the run      *)
(* returns normally instead.                                               *)
C7_DiscoveryFailureAborts ==
    /\ globResult = "rejected" =>
        /\ files = <<>> /\ reads = <<>> /\ aiCalls = <<>> /\ writes = <<>>
        /\ ~WarningEmitted /\ ~SummaryEmitted
        /\ pc \in {"catch_outer", "done"}
        /\ result # "returned"
        /\ pc = "done" => result = "raised" /\ thrown = GlobError
    /\ ZeroFilesFound => result = "returned" /\ thrown = NoError

\* The glob call has rejected and the caller has received its error.
C7_Witness ==
    /\ globResult = "rejected"
    /\ pc = "done" /\ result = "raised"
    /\ thrown = GlobError

(* C8: a run that raises has processed no file and was aborted by a        *)
(* validation failure or a discovery failure; once a file has been read    *)
(* the run never reaches the outer catch; a run that has ended has raised, *)
(* or found no file, or has attempted every discovered file and emitted    *)
(* the summary.                                                            *)
C8_RaisingRunsProcessNothing ==
    /\ (result = "raised" \/ pc = "catch_outer") =>
        /\ reads = <<>> /\ aiCalls = <<>> /\ writes = <<>> /\ raises = <<>>
        /\ ValidationFails \/ globResult = "rejected"
    /\ pc = "done" =>
        \/ result = "raised"
        \/ result = "returned" /\ ZeroFilesFound
        \/ result = "returned" /\ files # <<>> /\ reads = files /\ SummaryEmitted

\* A run has raised on its folder path argument, with nothing processed.
C8_Witness ==
    /\ result = "raised"
    /\ FolderPathRejected
    /\ reads = <<>>

\* The position of a discovered file in files.
Pos(file) == CHOOSE p \in DOMAIN files : files[p] = file

(* C9: the delay is started after each file but the last, in order and     *)
(* once each, whether the file failed or not: file index is started with   *)
(* index pauses made, the summary is reached with N-1 pauses, and every AI *)
(* call but the first is made after the pause that follows the previous    *)
(* file.                                                                   *)
C9_PauseBetweenFiles ==
    /\ \A k \in DOMAIN pauses : pauses[k].after = k - 1 /\ pauses[k].ms = DelayMs
    /\ files # <<>> => Len(pauses) <= Len(files) - 1
    /\ pc \in {"process_file", "await_ai", "await_write", "catch_file", "delay"} =>
        Len(pauses) = index
    /\ pc = "await_delay" => Len(pauses) = index + 1 /\ index < Len(files) - 1
    /\ (pc = "summary" \/ AfterSummary) => Len(pauses) = Len(files) - 1
    /\ pc = "await_ai" => aiCalls[Len(aiCalls)].file = files[index + 1]
    /\ \A k \in DOMAIN aiCalls :
        /\ Pos(aiCalls[k].file) - 1 <= Len(pauses)
        /\ k >= 2 => Pos(aiCalls[k].file) > Pos(aiCalls[k - 1].file)

\* A run with a failed and a documented file has ended after N-1 pauses.
C9_Witness ==
    /\ AfterSummary
    /\ Len(files) >= 2
    /\ Len(pauses) = Len(files) - 1
    /\ Len(aiCalls) >= 2
    /\ errorCount >= 1 /\ successCount >= 1

(* C10: at most one awaited operation is outstanding at any moment; it     *)
(* belongs to the current file; a file is started only with nothing        *)
(* outstanding, and while the AI call or the write of a file is            *)
(* outstanding no later file has been read.                                *)
C10_StrictlySequential ==
    /\ Cardinality(outstanding) <= 1
    /\ pc = "process_file" => outstanding = {}
    /\ Len(reads) <= index + 1
    /\ \A o \in outstanding :
        /\ o.op # "glob" => o.idx = index
        /\ o.op \in {"ai", "write"} => Len(reads) = o.idx + 1
    /\ pc = "await_ai" => outstanding = {[op |-> "ai", idx |-> index]}
    /\ pc = "await_write" => outstanding = {[op |-> "write", idx |-> index]}
    /\ Len(writes) <= Len(aiCalls) /\ Len(aiCalls) <= Len(reads)

\* The write of a later file is outstanding, alone.
C10_Witness ==
    /\ pc = "await_write"
    /\ index >= 1
    /\ outstanding = {[op |-> "write", idx |-> index]}

\* Files by what happened to them in this invocation.
FilesOf(seq) == { seq[i].file : i \in DOMAIN seq }
RaisedAt(step) == { raises[i].file : i \in { j \in DOMAIN raises : raises[j].step = step } }
ReadAndAiSucceeded == (Range(reads) \ RaisedAt("read")) \ RaisedAt("ai")

\* The steps of a file run in the order read, AI call, write, and a failed
\* step skips the rest: the AI is called for the files read without failure,
\* the writer is called once per result of the AI, at once, with that file
\* and that result.
StepsInOrder ==
    /\ FilesOf(aiCalls) = Range(reads) \ RaisedAt("read")
    /\ FilesOf(aiCalls) \cap RaisedAt("read") = {}
    /\ FilesOf(writes) \cap (RaisedAt("read") \cup RaisedAt("ai")) = {}
    /\ Len(writes) = Len(aiReturns)
    /\ \A i \in DOMAIN writes :
        /\ writes[i].file = aiReturns[i].file
        /\ writes[i].doc = aiReturns[i].doc
    /\ FilesOf(aiReturns) \subseteq FilesOf(aiCalls)
    /\ FilesOf(writeReturns) \subseteq FilesOf(writes)
    /\ pc = "await_write" => writes[Len(writes)].doc = documentation

(* C11 as stated: the steps of a file run in order with the AI's own       *)
(* result handed to the writer, and at the end of a run output has been    *)
(* written exactly for the files whose read and AI call succeeded.         *)
C11_OutputForReadAndAiSuccess ==
    /\ StepsInOrder
    /\ AfterSummary => FilesOf(writeReturns) = ReadAndAiSucceeded

(* C11 amended: the steps of a file run in order with the AI's own result  *)
(* handed to the writer; at the end of a run the writer has been called    *)
(* exactly for the files whose read and AI call succeeded, and output has  *)
(* been written exactly for those of them whose write succeeded too.       *)
C11_OutputForFullySucceededFiles ==
    /\ StepsInOrder
    /\ AfterSummary =>
        /\ FilesOf(writes) = ReadAndAiSucceeded
        /\ FilesOf(writeReturns) = ReadAndAiSucceeded \ RaisedAt("write")
        /\ FilesOf(writeReturns) = Range(files) \ RaisedFiles

\* Three files, the AI failed on the second: written are the first and third.
C11_Witness ==
    /\ AfterSummary
    /\ Len(files) >= 3
    /\ raises = <<[file |-> files[2], step |-> "ai"]>>
    /\ FilesOf(writeReturns) = Range(files) \ {files[2]}
    /\ successCount = Len(files) - 1 /\ errorCount = 1

\* The second invocation has ended.
SecondRunEnded == run = "second" /\ pc = "done"

(* C12: an invocation that differs from an earlier one in options.verbose  *)
(* only, with the same files discovered and the same outcome of every      *)
(* read, AI call and write, makes the same AI calls and the same writes in *)
(* the same order, ends with the same successCount and errorCount and the  *)
(* same outcome (return, or raise of the same error).                      *)
C12_VerboseDoesNotSteer ==
    (SecondRunEnded /\ options.verbose # prev.verbose) =>
        /\ files = prev.files
        /\ reads = prev.reads
        /\ aiCalls = prev.aiCalls
        /\ writes = prev.writes
        /\ pauses = prev.pauses
        /\ raises = prev.raises
        /\ successCount = prev.successCount
        /\ errorCount = prev.errorCount
        /\ result = prev.result
        /\ thrown = prev.thrown

\* A verbose and a quiet run over the same files, with a failure and a
\* documented file, have both ended.
C12_Witness ==
    /\ SecondRunEnded
    /\ options.verbose # prev.verbose
    /\ Len(files) >= 2
    /\ raises # <<>> /\ writeReturns # <<>>
    /\ console # prev.console

\* The phase of the run: validation is lines 16-28, discovery the awaited
\* glob call, file processing the loop, summarizing lines 118-123; a run that
\* is over after its summary is Done, a run that is over, or in the outer
\* catch on its way to the caller, without a summary is AbortedEarly.
Phase ==
    IF pc \in {"validate_folder", "validate_output", "check_folder"} THEN "Validating"
    ELSE IF pc = "await_glob" THEN "Discovering"
    ELSE IF pc \in {"process_file", "await_ai", "await_write", "catch_file", "delay",
                    "await_delay"} THEN "ProcessingFiles"
    ELSE IF pc = "summary" THEN "Summarizing"
    ELSE IF pc = "done" /\ SummaryEmitted THEN "Done"
    ELSE "AbortedEarly"

PhaseOrder ==
    {<<"Validating", "Discovering">>, <<"Discovering", "ProcessingFiles">>,
     <<"ProcessingFiles", "Summarizing">>, <<"Summarizing", "Done">>,
     <<"Validating", "AbortedEarly">>, <<"Discovering", "AbortedEarly">>}

\* A step changes the phase only along PhaseOrder, and enters Summarizing
\* only with every discovered file processed.
PhaseStep ==
    /\ Phase' # Phase => <<Phase, Phase'>> \in PhaseOrder
    /\ (Phase' = "Summarizing" /\ Phase # "Summarizing") =>
        /\ reads' = files'
        /\ successCount' + errorCount' = Len(files')

(* C13 as stated: the phases are passed in the order Validating,           *)
(* Discovering, ProcessingFiles, Summarizing, Done, none revisited;        *)
(* Summarizing is entered only after every file was processed; and         *)
(* AbortedEarly is reached only when Validating fails or Discovering       *)
(* yields zero files.                                                      *)
C13_AbortOnlyByValidationOrZeroFiles ==
    [][/\ PhaseStep
       /\ Phase' = "AbortedEarly" => ValidationFails \/ ZeroFilesFound']_vars

(* C13 amended: the same order of phases; AbortedEarly is reached only     *)
(* when Validating fails, when Discovering yields zero files, or when the  *)
(* discovery call itself fails.                                            *)
C13_PhasesInOrder ==
    [][/\ PhaseStep
       /\ Phase' = "AbortedEarly" =>
            ValidationFails \/ ZeroFilesFound' \/ globResult' = "rejected"]_vars

\* The run has been aborted by a failed discovery.
C13_Witness ==
    /\ Phase = "AbortedEarly"
    /\ pc = "catch_outer"
    /\ ~ValidationFails
    /\ globResult = "rejected"

(* C14: a second invocation on the same folder and output directory, with  *)
(* the same outcome of every step, ends as the first did (without error    *)
(* when the first returned), with the same successCount and errorCount,    *)
(* and leaves the documents the first left: one per written file, at its   *)
(* mirrored path, none twice.                                              *)
C14_SecondRunIdempotent ==
    SecondRunEnded =>
        /\ result = prev.result
        /\ prev.result = "returned" => thrown = NoError
        /\ successCount = prev.successCount
        /\ errorCount = prev.errorCount
        /\ outDocs = prev.outDocs
        /\ \A d, e \in outDocs : d.path = e.path => d = e
        /\ { d.path : d \in outDocs } =
             { MirroredPath(f, options.output.val) : f \in FilesOf(writeReturns) }

\* Both invocations have returned, with documents written and a failure.
C14_Witness ==
    /\ SecondRunEnded
    /\ result = "returned" /\ prev.result = "returned"
    /\ successCount >= 1 /\ errorCount >= 1
    /\ Cardinality(outDocs) = successCount
    /\ writes = prev.writes

\* The positions of the console lines with a text.
LinesWith(text) == { i \in DOMAIN console : console[i].text = text }

(* C15: the summary is emitted at most once, only at the end of a run that *)
(* attempted every discovered file, and by every such run; it follows all  *)
(* lines about files, reports the final successCount and the resolved      *)
(* output directory, and has the error line, with the final errorCount,    *)
(* exactly when errorCount > 0.                                            *)
C15_SummaryOnceWithFinalCounts ==
    /\ HowOften("Documentation generation complete!") <= 1
    /\ HowOften("files successfully documented") <= 1
    /\ HowOften("files had errors (see above for details)") <= 1
    /\ HowOften("Output directory:") <= 1
    /\ SummaryEmitted => pc = "done" /\ result = "returned" /\ files # <<>> /\ reads = files
    /\ (pc = "done" /\ reads # <<>>) => SummaryEmitted
    /\ SummaryEmitted =>
        /\ \A i \in LinesWith("Documentation generation complete!") :
            \A j \in LinesWith("Processing:") \cup LinesWith("Error processing")
                     \cup LinesWith("Successfully documented:") : j < i
        /\ \E i \in LinesWith("files successfully documented") :
            console[i].nums = <<successCount>>
        /\ console[Len(console)].text = "Output directory:"
        /\ console[Len(console)].strs = <<Cwd, options.output.val>>
        /\ LinesWith("files had errors (see above for details)") # {} <=> errorCount > 0
        /\ \A i \in LinesWith("files had errors (see above for details)") :
            console[i].stream = "warn" /\ console[i].nums = <<errorCount>>

\* A summary without the error line has been emitted.
C15_Witness ==
    /\ SummaryEmitted
    /\ errorCount = 0
    /\ successCount = Len(files)
    /\ LinesWith("files had errors (see above for details)") = {}

\* How often a file occurs in a sequence of calls or of paths.
TimesCalled(seq, file) == Cardinality({ i \in DOMAIN seq : seq[i].file = file })
TimesRead(file) == Cardinality({ i \in DOMAIN reads : reads[i] = file })

(* C16: no file is read more than once nor sent to the AI more than once,  *)
(* a failed file included; the files are read in discovery order, and each *)
(* AI call belongs to a file that comes later in the discovered sequence   *)
(* than the files of all earlier AI calls.                                 *)
C16_NoRetryInDiscoveryOrder ==
    /\ Len(reads) <= Len(files)
    /\ \A i \in DOMAIN reads : reads[i] = files[i]
    /\ \A i \in DOMAIN files :
        /\ TimesRead(files[i]) <= 1
        /\ TimesCalled(aiCalls, files[i]) <= 1
        /\ TimesCalled(writes, files[i]) <= 1
    /\ \A f \in RaisedFiles : TimesRead(f) = 1 /\ TimesCalled(raises, f) = 1
    /\ \A j, k \in DOMAIN aiCalls :
        j < k => Pos(aiCalls[j].file) < Pos(aiCalls[k].file)

\* The AI failed on the first file, was called for a later one, and the run
\* is over; the discovery order was not the sorted one.
C16_Witness ==
    /\ pc = "done"
    /\ Len(files) >= 2
    /\ files[1].rel > files[2].rel
    /\ raises # <<>> /\ raises[1] = [file |-> files[1], step |-> "ai"]
    /\ Len(aiCalls) >= 2

(* C17: successCount is the number of files for which writeMarkdown has    *)
(* returned; each of them had its AI call return and is not counted in     *)
(* errorCount, which counts the files a step of which raised; at the       *)
(* summary successCount is the number of files whose AI call and write     *)
(* both succeeded.                                                         *)
C17_SuccessCountIsSuccessfulWrites ==
    /\ successCount = Len(writeReturns)
    /\ successCount = Cardinality(FilesOf(writeReturns))
    /\ FilesOf(writeReturns) \subseteq FilesOf(aiReturns)
    /\ FilesOf(writeReturns) \cap RaisedFiles = {}
    /\ errorCount = Cardinality(RaisedFiles) - (IF pc = "catch_file" THEN 1 ELSE 0)
    /\ pc = "catch_file" => CurrentFile \in RaisedFiles
    /\ (pc = "summary" \/ AfterSummary) =>
        /\ FilesOf(writeReturns) = FilesOf(aiReturns) \ RaisedAt("write")
        /\ successCount = Cardinality(Range(files) \ RaisedFiles)

\* In a verbose run the writer has just returned for a later file, after a
\* failed write for an earlier one.
C17_Witness ==
    /\ pc = "delay"
    /\ options.verbose
    /\ index >= 1
    /\ writeReturns # <<>> /\ writeReturns[Len(writeReturns)].file = CurrentFile
    /\ RaisedAt("write") # {}
    /\ successCount = Len(writeReturns)

\* The AI call of the current file has not settled.
AiCallOutstanding == [op |-> "ai", idx |-> index] \in outstanding

(* C18: while the AI call of a file stays outstanding nothing changes: no  *)
(* file is read, no AI call or write is made, no counter changes, nothing  *)
(* is printed and the run stays where it is; the only steps an outstanding *)
(* AI call allows are its own return and its own failure.                  *)
C18_HungAiCallStallsRun ==
    [][(AiCallOutstanding /\ AiCallOutstanding') =>
          /\ pc' = pc /\ index' = index /\ result' = result
          /\ reads' = reads /\ aiCalls' = aiCalls /\ writes' = writes
          /\ successCount' = successCount /\ errorCount' = errorCount
          /\ console' = console /\ pauses' = pauses]_vars

\* The AI call of a file is outstanding while later files wait.
C18_Witness ==
    /\ pc = "await_ai"
    /\ AiCallOutstanding
    /\ index >= 1
    /\ Len(reads) < Len(files)
    /\ ~SummaryEmitted

\* The run is over: it has returned or raised.
Terminated == pc = "done" /\ result \in {"returned", "raised"}

(* C19: when every awaited operation settles, every run ends, returning or *)
(* raising; the loop index never decreases, every file is started with an  *)
(* index one above the file before it, and a file that is read has not     *)
(* been read before.                                                       *)
C19_RunTerminates ==
    /\ <>Terminated
    /\ [][/\ index' >= index
          /\ (pc' = "process_file" /\ pc # "await_glob") => index' = index + 1
          /\ reads' # reads =>
               /\ reads' = Append(reads, files[index + 1])
               /\ files[index + 1] \notin Range(reads)]_vars

\* A run over several files has ended after its last file.
C19_Witness ==
    /\ Terminated
    /\ result = "returned"
    /\ Len(files) >= 2
    /\ index = Len(files)
    /\ Len(reads) = Len(files)

====
